---- MODULE Spec2Model ----
(***************************************************************************)
(* Model of src/provider/awsCdkProvider.ts: the AwsCdkProvider adapter.    *)
(*                                                                         *)
(* The host framework's object graph (options, serverless.config,          *)
(* serverless.service) is the adapter's state; every getter is an action   *)
(* that records what it returned in `ret`; the async methods (getSdk,      *)
(* getSdkProvider, getEnvironment, getAccountInfo) are split at their      *)
(* awaits, one record per call in flight in `calls`.                       *)
(***************************************************************************)
EXTENDS Integers, Sequences, FiniteSets, TLC

VARIABLES
    options,        \* this.options
    config,         \* this.serverless.config
    provider,       \* this.serverless.service.provider
    serviceName,    \* this.serverless.service.service
    artifact,       \* this.serverless.service.artifact
    functions,      \* this.serverless.service.functions: name -> function object
    exclude,        \* this.serverless.service.package.exclude
    providers,      \* the host's provider registry: the names set by setProvider
    constructed,    \* whether new AwsCdkProvider(serverless, options) has run
    arg,            \* the string the caller hands to the next string helper call
    ret,            \* what the last synchronous method call returned
    sdkProvider,    \* this.sdkProvider: NoHandle, or the handle stored
    constructLog,   \* the SdkProvider.withAwsCliCompatibleDefaults calls made so far
    assignCount,    \* how many times this.sdkProvider has been assigned
    handed,         \* the handles getSdkProvider has returned to its callers
    calls           \* the async calls in flight, by call slot

vars == <<options, config, provider, serviceName, artifact, functions, exclude,
          providers, constructed, arg, ret, sdkProvider, constructLog, assignCount,
          handed, calls>>

hostVars == <<options, config, provider, serviceName, artifact, functions>>
asyncVars == <<sdkProvider, constructLog, assignCount, handed, calls>>

---------------------------------------------------------------------------
(* Bounds *)

\* The longest string handed to canonicalise / makeAlphanumeric.
MaxLen == 4
\* The number of async calls that may be in flight at once.
MaxCalls == 2
\* The longest packaging exclusion list the host holds before construction.
MaxExclude == 2

---------------------------------------------------------------------------
(* JavaScript values.  Strings are TLA+ strings; undefined and null are two *)
(* values apart from every string the configuration holds.                 *)

Undefined == "<undefined>"
Null == "<null>"

\* The values `x ? a : b`, `x || d` and `x && y` treat as false.
Falsy == {Undefined, Null, ""}
Truthy(v) == v \notin Falsy

\* a || b
Or(a, b) == IF Truthy(a) THEN a ELSE b

StageValues == Falsy \cup {"dev", "prod"}
RegionValues == Falsy \cup {"us-east-1", "eu-west-1"}
ProfileValues == Falsy \cup {"work", "default"}
StackNameValues == {Undefined, "", "custom-stack"}
ServiceNames == {"svc", "app"}
RoleValues == {Undefined, Null, "", "arn:aws:iam::111111111111:role/cfn"}
ArtifactValues == {Undefined, "", "service.zip"}
FunctionArtifactValues == {Undefined, "", "fn.zip"}
FunctionNames == {"hello", "world"}
BucketNameValues == {Undefined, "", "my-bucket"}

OptionKeys == {"stage", "region", "profile", "aws-profile"}
ConfigKeys == {"stage", "region", "profile", "servicePath"}

---------------------------------------------------------------------------
(* AwsCdkProvider.constants *)

providerName == "aws-cdk"
outDirRelativePath == ".serverless-aws-cdk-assembly"

---------------------------------------------------------------------------
(* Configuration precedence: getValues / firstValue *)

\* _.get(this, path.join(".")) over the object graph the adapter holds.
Get(path) ==
    IF path[1] = "options" THEN options[path[2]]
    ELSE IF path[2] = "config" THEN config[path[3]]
    ELSE provider[path[4]]

getValues(paths) ==
    [i \in 1..Len(paths) |-> [path |-> paths[i], value |-> Get(paths[i])]]

\* values.reduce(f, init), left to right.
RECURSIVE Reduce(_, _, _)
Reduce(values, i, result) ==
    IF i > Len(values) THEN result
    ELSE Reduce(values, i + 1,
                IF Truthy(result.value) THEN result ELSE values[i])

\* The reducer with its operands swapped, (result, current) =>
\* current.value ? current : result: the last non-empty value wins.
firstValue_LastWins(values) ==
    LET nonEmpty == {i \in 1..Len(values) : Truthy(values[i].value)}
    IN  IF nonEmpty = {} THEN [path |-> <<>>, value |-> Undefined]
        ELSE values[CHOOSE i \in nonEmpty : \A j \in nonEmpty : j <= i]

firstValue(values) == Reduce(values, 1, [path |-> <<>>, value |-> Undefined])

getStageSourceValue ==
    firstValue(getValues(<< <<"options", "stage">>,
                            <<"serverless", "config", "stage">>,
                            <<"serverless", "service", "provider", "stage">> >>))

getStage == Or(getStageSourceValue.value, "dev")

getRegionSourceValue ==
    firstValue(getValues(<< <<"options", "region">>,
                            <<"serverless", "config", "region">>,
                            <<"serverless", "service", "provider", "region">> >>))

getRegion == Or(getRegionSourceValue.value, "us-east-1")

\* firstVal is an object, so `firstVal ? firstVal.value : null` is firstVal.value.
getProfileSourceValue ==
    firstValue(getValues(<< <<"options", "aws-profile">>,
                            <<"options", "profile">>,
                            <<"serverless", "config", "profile">>,
                            <<"serverless", "service", "provider", "profile">> >>)).value

getProfile == getProfileSourceValue

---------------------------------------------------------------------------
(* Plain getters *)

getStackName_NoOverride == serviceName \o "-" \o getStage

getStackName ==
    IF Truthy(provider.stackName) THEN provider.stackName
    ELSE serviceName \o "-" \o getStage

getCfnRoleArn == Or(provider.cfnRole, Undefined)

\* provider.deploymentBucket is absent, a bucket-name string, or an object
\* that may hold a name: [kind, str, name].
NoBucket == [kind |-> "absent", str |-> Undefined, name |-> Undefined]
BucketTruthy(b) == b.kind = "object" \/ (b.kind = "string" /\ Truthy(b.str))
BucketNameField(b) == IF b.kind = "object" THEN b.name ELSE Undefined

getDeploymentBucketName_NoCheck == BucketNameField(provider.deploymentBucket)

getDeploymentBucketName ==
    LET deploymentBucketConfig == provider.deploymentBucket
    IN  IF BucketTruthy(deploymentBucketConfig)
           /\ Truthy(BucketNameField(deploymentBucketConfig))
        THEN BucketNameField(deploymentBucketConfig)
        ELSE Undefined

\* A function object: [hasPackage, artifact] for func.package.artifact.
NoPackage == [hasPackage |-> FALSE, artifact |-> Undefined]

Returned(v) == [threw |-> FALSE, value |-> v]
Thrown(msg) == [threw |-> TRUE, value |-> msg]

getFunctionZipPath_ServiceFirst(functionName) ==
    LET func == functions[functionName]
    IN  IF Truthy(artifact) THEN Returned(artifact)
        ELSE IF func.hasPackage /\ Truthy(func.artifact) THEN Returned(func.artifact)
        ELSE Thrown("Could not find zip package")

getFunctionZipPath(functionName) ==
    LET func == functions[functionName]
    IN  IF func.hasPackage /\ Truthy(func.artifact) THEN Returned(func.artifact)
        ELSE IF Truthy(artifact) THEN Returned(artifact)
        ELSE Thrown("Could not find zip package")

---------------------------------------------------------------------------
(* String helpers.  A string is a sequence of characters.                  *)

Alnum == {"a", "b", "c", "Z", "7"}
Chars == Alnum \cup {"-", "!", "_"}

\* [a-zA-Z0-9-]
InClass(c) == c \in Alnum \cup {"-"}

RECURSIVE Strings(_)
Strings(n) ==
    IF n = 0 THEN {<<>>}
    ELSE Strings(n - 1) \cup {Append(s, c) : s \in {t \in Strings(n - 1) : Len(t) = n - 1}, c \in Chars}

\* The leftmost position at or after i of a character outside the class, or 0.
RECURSIVE FirstMatch(_, _)
FirstMatch(value, i) ==
    IF i > Len(value) THEN 0
    ELSE IF ~InClass(value[i]) THEN i
    ELSE FirstMatch(value, i + 1)

\* The last position of the greedy match of [^a-zA-Z0-9-]+ that starts at i.
RECURSIVE MatchEnd(_, _)
MatchEnd(value, j) ==
    IF j < Len(value) /\ ~InClass(value[j + 1]) THEN MatchEnd(value, j + 1) ELSE j

\* The regex with the g flag: every run is replaced.
RECURSIVE canonicalise_Global(_)
canonicalise_Global(value) ==
    LET i == FirstMatch(value, 1)
    IN  IF i = 0 THEN value
        ELSE SubSeq(value, 1, i - 1) \o <<"-">>
             \o canonicalise_Global(SubSeq(value, MatchEnd(value, i) + 1, Len(value)))

\* value.replace(/[^a-zA-Z0-9-]+/, "-"): no g flag, the first match only.
canonicalise(value) ==
    LET i == FirstMatch(value, 1)
    IN  IF i = 0 THEN value
        ELSE SubSeq(value, 1, i - 1) \o <<"-">>
             \o SubSeq(value, MatchEnd(value, i) + 1, Len(value))

\* value.replace(/[^a-zA-Z0-9]+/g, "")
makeAlphanumeric(value) == SelectSeq(value, LAMBDA c : c \in Alnum)

---------------------------------------------------------------------------
(* The constructor *)

NoExclude == [kind |-> "undefined", items |-> <<>>]
Array(items) == [kind |-> "array", items |-> items]

ExcludeGlobs == {"node_modules/**", "tests/**"}

RECURSIVE Lists(_)
Lists(n) ==
    IF n = 0 THEN {<<>>}
    ELSE Lists(n - 1) \cup {Append(s, g) : s \in {t \in Lists(n - 1) : Len(t) = n - 1}, g \in ExcludeGlobs}

ExcludeValues ==
    {NoExclude, [kind |-> "string", items |-> <<"node_modules/**">>]}
        \cup {Array(l) : l \in Lists(MaxExclude)}

concatExclude_Replace(ex) == Array(<<outDirRelativePath \o "/**">>)

\* exclude instanceof Array ? exclude.concat(excludedFiles) : excludedFiles
concatExclude(ex) ==
    LET excludedFiles == <<outDirRelativePath \o "/**">>
    IN  IF ex.kind = "array" THEN Array(ex.items \o excludedFiles)
        ELSE Array(excludedFiles)

\* serverless.setProvider(name, instance)
setProvider(name, instance) ==
    {p \in providers : p[1] # name} \cup {<<name, instance>>}

Constructor ==
    /\ ~constructed
    /\ constructed' = TRUE
    /\ providers' = setProvider(providerName, "AwsCdkProvider")
    /\ exclude' = concatExclude(exclude)
    /\ UNCHANGED <<hostVars, arg, ret, asyncVars>>

---------------------------------------------------------------------------
(* Synchronous method calls: each records its result in ret.               *)

NoRet == [op |-> "none", arg |-> Undefined, threw |-> FALSE, value |-> Undefined]
Ret(op, a, r) == [op |-> op, arg |-> a, threw |-> r.threw, value |-> r.value]

\* What a synchronous method leaves alone: everything but ret.
syncFrame == <<hostVars, arg, exclude, providers, constructed, asyncVars>>

CallGetStage ==
    /\ constructed
    /\ ret' = Ret("getStage", Undefined, Returned(getStage))
    /\ UNCHANGED syncFrame

CallGetRegion ==
    /\ constructed
    /\ ret' = Ret("getRegion", Undefined, Returned(getRegion))
    /\ UNCHANGED syncFrame

CallGetProfile ==
    /\ constructed
    /\ ret' = Ret("getProfile", Undefined, Returned(getProfile))
    /\ UNCHANGED syncFrame

CallGetStackName ==
    /\ constructed
    /\ ret' = Ret("getStackName", Undefined, Returned(getStackName))
    /\ UNCHANGED syncFrame

CallGetCfnRoleArn ==
    /\ constructed
    /\ ret' = Ret("getCfnRoleArn", Undefined, Returned(getCfnRoleArn))
    /\ UNCHANGED syncFrame

CallGetDeploymentBucketName ==
    /\ constructed
    /\ ret' = Ret("getDeploymentBucketName", Undefined, Returned(getDeploymentBucketName))
    /\ UNCHANGED syncFrame

CallGetFunctionZipPath ==
    /\ constructed
    /\ \E functionName \in FunctionNames :
          ret' = Ret("getFunctionZipPath", functionName, getFunctionZipPath(functionName))
    /\ UNCHANGED syncFrame

CallCanonicalise ==
    /\ constructed
    /\ ret' = Ret("canonicalise", arg, Returned(canonicalise(arg)))
    /\ UNCHANGED syncFrame

CallMakeAlphanumeric ==
    /\ constructed
    /\ ret' = Ret("makeAlphanumeric", arg, Returned(makeAlphanumeric(arg)))
    /\ UNCHANGED syncFrame

---------------------------------------------------------------------------
(* The async methods.  A call runs from one await to the next in one step.  *)

Calls == 1..MaxCalls

\* this.sdkProvider before the first assignment; a handle is the number of the
\* SdkProvider.withAwsCliCompatibleDefaults call that made it.
NoHandle == 0

\* What sts.getCallerIdentity() may resolve to; Arn is the ARN split on ":".
Identities ==
    {[Account |-> "111111111111", UserId |-> "AIDAONE",
      Arn |-> <<"arn", "aws", "sts", "", "111111111111", "assumed-role/deployer/me">>],
     [Account |-> "222222222222", UserId |-> "AIDATWO",
      Arn |-> <<"arn", "aws-cn", "iam", "", "222222222222", "user/ci">>]}

NoEnvironment == [name |-> Undefined, account |-> Undefined, region |-> Undefined]
NoResult == [kind |-> "none", value |-> Undefined]

IdleCall ==
    [op |-> "idle", pc |-> "idle", assumeRoleArn |-> Undefined,
     sdkProvider |-> NoHandle, pending |-> NoHandle,
     stsCalls |-> 0,            \* sts.getCallerIdentity() calls made by this call
     identity |-> "none",       \* how its identity call settled
     accountId |-> Undefined,   \* the Account the identity call resolved to
     sessionCalls |-> <<>>, result |-> NoResult]

AsyncIdle ==
    /\ sdkProvider = NoHandle
    /\ constructLog = <<>>
    /\ assignCount = 0
    /\ handed = {}
    /\ calls = [c \in Calls |-> IdleCall]

\* What an async step leaves alone.
asyncFrame == <<hostVars, arg, ret, exclude, providers, constructed>>

NeedsConstruct_Always == TRUE

\* if (!this.sdkProvider)
NeedsConstruct == sdkProvider = NoHandle

\* getSdkProvider up to its await, on behalf of call c running op: either the
\* handle is there and is returned, or the construction is started.
EnterGetSdkProvider(c, op, roleArn) ==
    IF NeedsConstruct
    THEN /\ constructLog' = Append(constructLog, [profile |-> getProfile])
         /\ calls' = [calls EXCEPT ![c] =
                [IdleCall EXCEPT !.op = op, !.pc = "awaitConstruct",
                                 !.assumeRoleArn = roleArn,
                                 !.pending = Len(constructLog) + 1]]
         /\ UNCHANGED <<sdkProvider, assignCount, handed>>
    ELSE /\ handed' = handed \cup {sdkProvider}
         /\ calls' = [calls EXCEPT ![c] =
                IF op = "getSdkProvider"
                THEN [IdleCall EXCEPT !.op = op, !.pc = "done",
                                      !.sdkProvider = sdkProvider,
                                      !.result = [kind |-> "SdkProvider", value |-> sdkProvider]]
                ELSE [IdleCall EXCEPT !.op = op, !.pc = "awaitSdkProvider",
                                      !.assumeRoleArn = roleArn,
                                      !.sdkProvider = sdkProvider]]
         /\ UNCHANGED <<sdkProvider, constructLog, assignCount>>

BeginGetSdkProvider(c) ==
    /\ constructed
    /\ calls[c].op = "idle"
    /\ EnterGetSdkProvider(c, "getSdkProvider", Undefined)
    /\ UNCHANGED asyncFrame

\* getSdk: const assumeRoleArn = this.getCfnRoleArn(); await this.getSdkProvider()
BeginGetSdk(c) ==
    /\ constructed
    /\ calls[c].op = "idle"
    /\ EnterGetSdkProvider(c, "getSdk", getCfnRoleArn)
    /\ UNCHANGED asyncFrame

\* The construction resolves: this.sdkProvider = <it>; return this.sdkProvider.
ConstructResolve(c) ==
    /\ calls[c].pc = "awaitConstruct"
    /\ sdkProvider' = calls[c].pending
    /\ assignCount' = assignCount + 1
    /\ handed' = handed \cup {sdkProvider'}
    /\ calls' = [calls EXCEPT ![c] =
           IF calls[c].op = "getSdkProvider"
           THEN [@ EXCEPT !.pc = "done", !.pending = NoHandle, !.sdkProvider = sdkProvider',
                          !.result = [kind |-> "SdkProvider", value |-> sdkProvider']]
           ELSE [@ EXCEPT !.pc = "awaitSdkProvider", !.pending = NoHandle,
                          !.sdkProvider = sdkProvider']]
    /\ UNCHANGED <<constructLog, asyncFrame>>

\* getAccountInfo up to its await: new STS({region: this.getRegion()}) and
\* sts.getCallerIdentity().promise().
CallIdentity(call) == [call EXCEPT !.pc = "awaitIdentity", !.stsCalls = @ + 1]

\* getSdk resumes with the provider: either branch first awaits getAccountId().
ResumeGetSdk(c) ==
    /\ calls[c].pc = "awaitSdkProvider"
    /\ calls' = [calls EXCEPT ![c] = CallIdentity(@)]
    /\ UNCHANGED <<sdkProvider, constructLog, assignCount, handed, asyncFrame>>

BeginGetEnvironment(c) ==
    /\ constructed
    /\ calls[c].op = "idle"
    /\ calls' = [calls EXCEPT ![c] = CallIdentity([IdleCall EXCEPT !.op = "getEnvironment"])]
    /\ UNCHANGED <<sdkProvider, constructLog, assignCount, handed, asyncFrame>>

BeginGetAccountInfo(c) ==
    /\ constructed
    /\ calls[c].op = "idle"
    /\ calls' = [calls EXCEPT ![c] = CallIdentity([IdleCall EXCEPT !.op = "getAccountInfo"])]
    /\ UNCHANGED <<sdkProvider, constructLog, assignCount, handed, asyncFrame>>

\* _.nth(_.split(arn, ":"), 1)
Partition(arn) == arn[2]

AccountInfo(result) ==
    [accountId |-> result.Account, partition |-> Partition(result.Arn),
     arn |-> result.Arn, userId |-> result.UserId]

MakeEnvironment_Swapped(stage, accountId, region) ==
    [name |-> region, account |-> accountId, region |-> stage]

\* {name: stage, account: accountId, region: region}
MakeEnvironment(stage, accountId, region) ==
    [name |-> stage, account |-> accountId, region |-> region]

\* getEnvironment after getAccountId() has resolved to accountId.
getEnvironment(accountId) == MakeEnvironment(getStage, accountId, getRegion)

WithAssumedRole(handle, roleArn, accountId, region) ==
    [fn |-> "withAssumedRole", on |-> handle, roleArn |-> roleArn,
     accountId |-> accountId, region |-> region,
     environment |-> NoEnvironment, mode |-> Undefined]

ForEnvironment(handle, environment, mode) ==
    [fn |-> "forEnvironment", on |-> handle, roleArn |-> Undefined,
     accountId |-> Undefined, region |-> Undefined,
     environment |-> environment, mode |-> mode]

SessionCall_NeverAssume(call, accountId) ==
    ForEnvironment(call.sdkProvider, getEnvironment(accountId), "ForWriting")

\* if (!!assumeRoleArn) sdkProvider.withAssumedRole(assumeRoleArn, accountId,
\* this.getRegion()) else sdkProvider.forEnvironment(environment, Mode.ForWriting)
SessionCall(call, accountId) ==
    IF Truthy(call.assumeRoleArn)
    THEN WithAssumedRole(call.sdkProvider, call.assumeRoleArn, accountId, getRegion)
    ELSE ForEnvironment(call.sdkProvider, getEnvironment(accountId), "ForWriting")

\* sts.getCallerIdentity() resolves.
IdentityResolve(c) ==
    /\ calls[c].pc = "awaitIdentity"
    /\ \E id \in Identities :
          LET accountId == AccountInfo(id).accountId
              call == [calls[c] EXCEPT !.identity = "resolved", !.accountId = id.Account]
          IN  calls' = [calls EXCEPT ![c] =
                 IF call.op = "getAccountInfo"
                 THEN [call EXCEPT !.pc = "done",
                          !.result = [kind |-> "AccountInfo", value |-> AccountInfo(id)]]
                 ELSE IF call.op = "getEnvironment"
                 THEN [call EXCEPT !.pc = "done",
                          !.result = [kind |-> "Environment", value |-> getEnvironment(accountId)]]
                 ELSE [call EXCEPT !.pc = "awaitSession",
                          !.sessionCalls = Append(@, SessionCall(call, accountId))]]
    /\ UNCHANGED <<sdkProvider, constructLog, assignCount, handed, asyncFrame>>

\* sts.getCallerIdentity() rejects: the rejection passes through every await.
IdentityReject(c) ==
    /\ calls[c].pc = "awaitIdentity"
    /\ calls' = [calls EXCEPT ![c] =
           [@ EXCEPT !.pc = "failed", !.identity = "rejected",
                     !.result = [kind |-> "error", value |-> "getCallerIdentity rejected"]]]
    /\ UNCHANGED <<sdkProvider, constructLog, assignCount, handed, asyncFrame>>

\* The toolkit's session call resolves to an ISDK.
SessionResolve(c) ==
    /\ calls[c].pc = "awaitSession"
    /\ calls' = [calls EXCEPT ![c] =
           [@ EXCEPT !.pc = "done",
                     !.result = [kind |-> "ISDK", value |-> calls[c].sessionCalls[1]]]]
    /\ UNCHANGED <<sdkProvider, constructLog, assignCount, handed, asyncFrame>>

SessionReject(c) ==
    /\ calls[c].pc = "awaitSession"
    /\ calls' = [calls EXCEPT ![c] =
           [@ EXCEPT !.pc = "failed",
                     !.result = [kind |-> "error", value |-> "session call rejected"]]]
    /\ UNCHANGED <<sdkProvider, constructLog, assignCount, handed, asyncFrame>>

\* The caller takes the settled promise.
Settle(c) ==
    /\ calls[c].pc \in {"done", "failed"}
    /\ calls' = [calls EXCEPT ![c] = IdleCall]
    /\ UNCHANGED <<sdkProvider, constructLog, assignCount, handed, asyncFrame>>

\* Every call begun so far has settled.
NoCallInFlight == \A c \in Calls : calls[c].pc \in {"idle", "done", "failed"}

---------------------------------------------------------------------------
(* The host's object graph before the adapter is constructed.              *)

DefaultOptions == [k \in OptionKeys |-> Undefined]
DefaultConfig == [k \in ConfigKeys |-> IF k = "servicePath" THEN "/srv/app" ELSE Undefined]
DefaultProvider ==
    [stage |-> Undefined, region |-> Undefined, profile |-> Undefined,
     stackName |-> Undefined, cfnRole |-> Undefined, deploymentBucket |-> NoBucket]
DefaultFunctions == [f \in FunctionNames |-> NoPackage]

BucketValues ==
    {NoBucket}
        \cup {[kind |-> "string", str |-> s, name |-> Undefined] : s \in {"", "my-bucket"}}
        \cup {[kind |-> "object", str |-> Undefined, name |-> n] : n \in BucketNameValues}

FunctionValues ==
    {NoPackage} \cup {[hasPackage |-> TRUE, artifact |-> a] : a \in FunctionArtifactValues}

Host(o, c, p, s, a, f) ==
    /\ options = o
    /\ config = c
    /\ provider = p
    /\ serviceName = s
    /\ artifact = a
    /\ functions = f

\* Stage settings, with the stack-name override and the service name.
HostStage ==
    \E o \in StageValues, c \in StageValues, p \in StageValues,
       sn \in StackNameValues, s \in ServiceNames :
        Host([DefaultOptions EXCEPT !["stage"] = o],
             [DefaultConfig EXCEPT !["stage"] = c],
             [DefaultProvider EXCEPT !["stage"] = p, !["stackName"] = sn],
             s, Undefined, DefaultFunctions)

HostRegion ==
    \E o \in RegionValues, c \in RegionValues, p \in RegionValues :
        Host([DefaultOptions EXCEPT !["region"] = o],
             [DefaultConfig EXCEPT !["region"] = c],
             [DefaultProvider EXCEPT !["region"] = p],
             "svc", Undefined, DefaultFunctions)

HostProfile ==
    \E a \in ProfileValues, o \in ProfileValues, c \in ProfileValues, p \in ProfileValues :
        Host([DefaultOptions EXCEPT !["aws-profile"] = a, !["profile"] = o],
             [DefaultConfig EXCEPT !["profile"] = c],
             [DefaultProvider EXCEPT !["profile"] = p],
             "svc", Undefined, DefaultFunctions)

\* The optional settings: the CloudFormation role and the deployment bucket.
HostOptional ==
    \E r \in RoleValues, b \in BucketValues :
        Host(DefaultOptions, DefaultConfig,
             [DefaultProvider EXCEPT !["cfnRole"] = r, !["deploymentBucket"] = b],
             "svc", Undefined, DefaultFunctions)

HostPackage ==
    \E a \in ArtifactValues, f \in [FunctionNames -> FunctionValues] :
        Host(DefaultOptions, DefaultConfig, DefaultProvider, "svc", a, f)

HostDefault ==
    Host(DefaultOptions, DefaultConfig, DefaultProvider, "svc", Undefined, DefaultFunctions)

\* The state in which the host calls new AwsCdkProvider(serverless, options).
InitConfig ==
    /\ \/ (HostStage \/ HostRegion \/ HostProfile \/ HostOptional \/ HostPackage)
          /\ exclude = NoExclude
          /\ providers = {}
       \/ /\ HostDefault
          /\ exclude \in ExcludeValues
          /\ providers \in {{}, {<<"aws", "AwsProvider">>}, {<<providerName, "Other">>}}
    /\ constructed = FALSE
    /\ arg = <<>>
    /\ ret = NoRet
    /\ AsyncIdle

NextConfig ==
    \/ Constructor
    \/ CallGetStage
    \/ CallGetRegion
    \/ CallGetProfile
    \/ CallGetStackName
    \/ CallGetCfnRoleArn
    \/ CallGetDeploymentBucketName
    \/ CallGetFunctionZipPath

SpecConfig == InitConfig /\ [][NextConfig]_vars

\* The adapter as constructed over a default service, for the string helpers.
InitStr ==
    /\ HostDefault
    /\ exclude = concatExclude(NoExclude)
    /\ providers = {<<providerName, "AwsCdkProvider">>}
    /\ constructed = TRUE
    /\ arg \in Strings(MaxLen)
    /\ ret = NoRet
    /\ AsyncIdle

NextStr ==
    \/ CallCanonicalise
    \/ CallMakeAlphanumeric

SpecStr == InitStr /\ [][NextStr]_vars

\* The adapter as constructed, before any async call: with and without a
\* CloudFormation role, over the defaults or over explicit CLI options.
Init ==
    /\ \E r \in {Undefined, "arn:aws:iam::111111111111:role/cfn"},
          o \in {DefaultOptions,
                 [DefaultOptions EXCEPT !["stage"] = "prod", !["region"] = "eu-west-1",
                                        !["profile"] = "work"]} :
          Host(o, DefaultConfig, [DefaultProvider EXCEPT !["cfnRole"] = r],
               "svc", Undefined, DefaultFunctions)
    /\ exclude = concatExclude(NoExclude)
    /\ providers = {<<providerName, "AwsCdkProvider">>}
    /\ constructed = TRUE
    /\ arg = <<>>
    /\ ret = NoRet
    /\ AsyncIdle

\* Any interleaving of the async calls: a call may begin while others wait.
Next ==
    \/ \E c \in Calls : BeginGetSdkProvider(c)
    \/ \E c \in Calls : BeginGetSdk(c)
    \/ \E c \in Calls : BeginGetEnvironment(c)
    \/ \E c \in Calls : BeginGetAccountInfo(c)
    \/ \E c \in Calls : ConstructResolve(c)
    \/ \E c \in Calls : ResumeGetSdk(c)
    \/ \E c \in Calls : IdentityResolve(c)
    \/ \E c \in Calls : IdentityReject(c)
    \/ \E c \in Calls : SessionResolve(c)
    \/ \E c \in Calls : SessionReject(c)
    \/ \E c \in Calls : Settle(c)

Spec == Init /\ [][Next]_vars

\* The command pipeline's use: each call is awaited before the next begins.
NextSeq ==
    \/ \E c \in Calls : NoCallInFlight /\ BeginGetSdkProvider(c)
    \/ \E c \in Calls : NoCallInFlight /\ BeginGetSdk(c)
    \/ \E c \in Calls : NoCallInFlight /\ BeginGetEnvironment(c)
    \/ \E c \in Calls : NoCallInFlight /\ BeginGetAccountInfo(c)
    \/ \E c \in Calls : ConstructResolve(c)
    \/ \E c \in Calls : ResumeGetSdk(c)
    \/ \E c \in Calls : IdentityResolve(c)
    \/ \E c \in Calls : IdentityReject(c)
    \/ \E c \in Calls : SessionResolve(c)
    \/ \E c \in Calls : SessionReject(c)
    \/ \E c \in Calls : Settle(c)

SpecSeq == Init /\ [][NextSeq]_vars

---------------------------------------------------------------------------
(* Properties of the async methods.                                        *)

\* The first non-empty entry of chain, or default.
FirstNonEmptyOr(chain, default) ==
    IF \A i \in 1..Len(chain) : chain[i] \in {Undefined, Null, ""} THEN default
    ELSE chain[CHOOSE i \in 1..Len(chain) :
                   /\ chain[i] \notin {Undefined, Null, ""}
                   /\ \A j \in 1..(i - 1) : chain[j] \in {Undefined, Null, ""}]

ResolvedStage ==
    FirstNonEmptyOr(<<options["stage"], config["stage"], provider["stage"]>>, "dev")
ResolvedRegion ==
    FirstNonEmptyOr(<<options["region"], config["region"], provider["region"]>>, "us-east-1")

C10_AssignedOnce ==
    /\ assignCount <= 1
    /\ Cardinality(handed) <= 1

\* The session call a getSdk call is to make, given the account its identity
\* call returned.
IsRightSessionCall(call) ==
    LET sc == call.sessionCalls[1]
    IN  IF provider.cfnRole \notin {Undefined, Null, ""}
        THEN /\ sc.fn = "withAssumedRole"
             /\ sc.roleArn = provider.cfnRole
             /\ sc.accountId = call.accountId
             /\ sc.region = ResolvedRegion
        ELSE /\ sc.fn = "forEnvironment"
             /\ sc.environment = [name |-> ResolvedStage, account |-> call.accountId,
                                  region |-> ResolvedRegion]
             /\ sc.mode = "ForWriting"

\* C3 as stated: every getSdk call, once settled, has made exactly one of the
\* two session calls: withAssumedRole(roleArn, accountId, region) with a role
\* configured, forEnvironment(environment, "for writing") without.
C3_ExactlyOneSessionCall ==
    \A c \in Calls :
        (calls[c].op = "getSdk" /\ calls[c].pc \in {"done", "failed"}) =>
            /\ Len(calls[c].sessionCalls) = 1
            /\ IsRightSessionCall(calls[c])

\* C3 as amended: a getSdk call makes at most one session call; it makes
\* exactly one, the one its role configuration selects, once its identity call
\* has resolved, and none when that call rejects.
C3_SessionCallAfterIdentity ==
    \A c \in Calls :
        calls[c].op = "getSdk" =>
            /\ Len(calls[c].sessionCalls) <= 1
            /\ calls[c].identity = "resolved" =>
                  Len(calls[c].sessionCalls) = 1 /\ IsRightSessionCall(calls[c])
            /\ calls[c].identity # "resolved" => calls[c].sessionCalls = <<>>

\* A getSdk call with a role configured has got its ISDK from withAssumedRole.
C3_Witness ==
    \E c \in Calls :
        /\ calls[c].op = "getSdk"
        /\ calls[c].pc = "done"
        /\ provider.cfnRole = "arn:aws:iam::111111111111:role/cfn"
        /\ calls[c].sessionCalls[1].fn = "withAssumedRole"
        /\ calls[c].sessionCalls[1].accountId = "222222222222"
        /\ calls[c].sessionCalls[1].region = "eu-west-1"

\* C4: getEnvironment returns {name: stage, account: the identity call's
\* account, region: region} and only after the identity call has resolved; when
\* the identity call rejects, the call (getAccountInfo, getEnvironment, getSdk)
\* fails with that error, returns no descriptor and no session, makes no session
\* call and does not call the identity operation again.
C4_EnvironmentNeedsIdentity ==
    \A c \in Calls :
        /\ calls[c].stsCalls <= 1
        /\ calls[c].result.kind \in {"AccountInfo", "Environment", "ISDK"} =>
              calls[c].identity = "resolved"
        /\ (calls[c].op = "getEnvironment" /\ calls[c].identity = "resolved") =>
              /\ calls[c].pc = "done"
              /\ calls[c].result =
                    [kind |-> "Environment",
                     value |-> [name |-> ResolvedStage, account |-> calls[c].accountId,
                                region |-> ResolvedRegion]]
        /\ calls[c].identity = "rejected" =>
              /\ calls[c].pc = "failed"
              /\ calls[c].result = [kind |-> "error", value |-> "getCallerIdentity rejected"]
              /\ calls[c].sessionCalls = <<>>
              /\ calls[c].stsCalls = 1

\* getEnvironment has returned the descriptor of stage prod in eu-west-1.
C4_Witness ==
    \E c \in Calls :
        /\ calls[c].op = "getEnvironment"
        /\ calls[c].pc = "done"
        /\ calls[c].result.value =
              [name |-> "prod", account |-> "222222222222", region |-> "eu-west-1"]

---------------------------------------------------------------------------
(* Properties of the configuration getters, checked under SpecConfig.      *)

StageChain == <<options["stage"], config["stage"], provider["stage"]>>
RegionChain == <<options["region"], config["region"], provider["region"]>>
ProfileChain ==
    <<options["aws-profile"], options["profile"], config["profile"], provider["profile"]>>

AllEmpty(chain) == \A i \in 1..Len(chain) : chain[i] \in {Undefined, Null, ""}

\* v is the first non-empty entry of chain, in chain order.
IsFirstNonEmpty(chain, v) ==
    \E i \in 1..Len(chain) :
        /\ chain[i] \notin {Undefined, Null, ""}
        /\ \A j \in 1..(i - 1) : chain[j] \in {Undefined, Null, ""}
        /\ v = chain[i]

\* C1: each of stage, region and profile resolves to the first non-empty entry
\* of its precedence chain; with every entry empty, stage is "dev", region is
\* "us-east-1" and profile is unset (an empty value: no default is put in).
C1_PrecedenceChains ==
    /\ ret.op = "getStage" =>
          IF AllEmpty(StageChain) THEN ret.value = "dev"
          ELSE IsFirstNonEmpty(StageChain, ret.value)
    /\ ret.op = "getRegion" =>
          IF AllEmpty(RegionChain) THEN ret.value = "us-east-1"
          ELSE IsFirstNonEmpty(RegionChain, ret.value)
    /\ ret.op = "getProfile" =>
          IF AllEmpty(ProfileChain) THEN ret.value \in {Undefined, Null, ""}
          ELSE IsFirstNonEmpty(ProfileChain, ret.value)

\* getProfile has skipped two empty entries and taken the third, config.profile,
\* over a different provider.profile.
C1_Witness ==
    /\ ret.op = "getProfile"
    /\ ProfileChain = <<Undefined, "", "work", "default">>
    /\ ret.value = "work"

\* C5: getFunctionZipPath returns the per-function artifact when present, also
\* beside a service-wide one; the service-wide artifact when only that is
\* present; and throws when neither is.
C5_FunctionZipPath ==
    ret.op = "getFunctionZipPath" =>
        LET func == functions[ret.arg]
            perFunction == func.hasPackage /\ func.artifact \notin {Undefined, Null, ""}
            serviceWide == artifact \notin {Undefined, Null, ""}
        IN  /\ perFunction => ~ret.threw /\ ret.value = func.artifact
            /\ ~perFunction /\ serviceWide => ~ret.threw /\ ret.value = artifact
            /\ ~perFunction /\ ~serviceWide => ret.threw

\* Both artifacts are present and the per-function one was returned.
C5_Witness ==
    /\ ret.op = "getFunctionZipPath"
    /\ ret.arg = "hello"
    /\ functions["hello"] = [hasPackage |-> TRUE, artifact |-> "fn.zip"]
    /\ artifact = "service.zip"
    /\ ret.value = "fn.zip"

\* C6: getStackName returns provider.stackName when one is set, whatever the
\* stage; otherwise "{serviceName}-{stage}" with the stage of the stage
\* precedence chain, "dev" by default: service "svc" without a stage is "svc-dev".
C6_StackName ==
    ret.op = "getStackName" =>
        /\ ~ret.threw
        /\ IF provider.stackName \notin {Undefined, Null, ""}
           THEN ret.value = provider.stackName
           ELSE \E stage \in StageValues \ {Undefined, Null, ""} :
                   /\ IF AllEmpty(StageChain) THEN stage = "dev"
                      ELSE IsFirstNonEmpty(StageChain, stage)
                   /\ ret.value = serviceName \o "-" \o stage
        /\ (serviceName = "svc" /\ provider.stackName = Undefined /\ AllEmpty(StageChain))
              => ret.value = "svc-dev"

\* The override is set over a configured stage, and the override was returned.
C6_Witness ==
    /\ ret.op = "getStackName"
    /\ provider.stackName = "custom-stack"
    /\ StageChain = <<"prod", Undefined, "dev">>
    /\ ret.value = "custom-stack"

\* C7: construction registers the adapter under "aws-cdk" and appends
\* ".serverless-aws-cdk-assembly/**" to package.exclude: the entries held
\* before stay, in order, before the glob; with no list before, the list is the
\* glob alone.
C7_Constructor ==
    [][(~constructed /\ constructed') =>
          /\ <<"aws-cdk", "AwsCdkProvider">> \in providers'
          /\ \A p \in providers' : p[1] = "aws-cdk" => p[2] = "AwsCdkProvider"
          /\ exclude'.kind = "array"
          /\ IF exclude.kind = "array"
             THEN /\ Len(exclude'.items) = Len(exclude.items) + 1
                  /\ \A i \in 1..Len(exclude.items) : exclude'.items[i] = exclude.items[i]
                  /\ exclude'.items[Len(exclude'.items)] = ".serverless-aws-cdk-assembly/**"
             ELSE exclude'.items = <<".serverless-aws-cdk-assembly/**">>]_vars

\* The adapter was constructed over a two-entry exclusion list.
C7_Witness ==
    /\ constructed
    /\ exclude = Array(<<"node_modules/**", "tests/**", ".serverless-aws-cdk-assembly/**">>)
    /\ <<"aws-cdk", "AwsCdkProvider">> \in providers

\* C9: absent optional configuration is no error: getDeploymentBucketName
\* returns undefined without a bucket config or without a name in it, and the
\* name otherwise; getCfnRoleArn returns undefined without a cfnRole.
C9_OptionalConfig ==
    /\ ret.op = "getDeploymentBucketName" =>
          /\ ~ret.threw
          /\ LET b == provider.deploymentBucket
             IN  IF b.kind = "object" /\ b.name \notin {Undefined, Null, ""}
                 THEN ret.value = b.name
                 ELSE ret.value = Undefined
    /\ ret.op = "getCfnRoleArn" =>
          /\ ~ret.threw
          /\ IF provider.cfnRole \in {Undefined, Null, ""}
             THEN ret.value = Undefined
             ELSE ret.value = provider.cfnRole

\* A bucket object without a name, and undefined was returned.
C9_Witness ==
    /\ ret.op = "getDeploymentBucketName"
    /\ provider.deploymentBucket = [kind |-> "object", str |-> Undefined, name |-> Undefined]
    /\ ret.value = Undefined
    /\ ~ret.threw

---------------------------------------------------------------------------
(* Properties of the string helpers, checked under SpecStr.                *)

\* C8: canonicalise replaces the first maximal run of characters outside
\* [a-zA-Z0-9-] by one "-" and leaves the rest, later runs included, as it is:
\* "a!!b!!c" becomes "a-b!!c"; a string without such a character is unchanged.
C8_Canonicalise ==
    /\ ret.op = "canonicalise" =>
          LET s == ret.arg
              Outside == {i \in 1..Len(s) : s[i] \in {"!", "_"}}
          IN  IF Outside = {} THEN ret.value = s
              ELSE LET first == CHOOSE i \in Outside : \A k \in Outside : i <= k
                       last == CHOOSE j \in first..Len(s) :
                                   /\ \A k \in first..j : k \in Outside
                                   /\ (j + 1) \notin Outside
                   IN  ret.value = SubSeq(s, 1, first - 1) \o <<"-">>
                                       \o SubSeq(s, last + 1, Len(s))
    /\ canonicalise(<<"a", "!", "!", "b", "!", "!", "c">>)
          = <<"a", "-", "b", "!", "!", "c">>

\* A string with two runs: the first is replaced, the second is left.
C8_Witness ==
    /\ ret.op = "canonicalise"
    /\ ret.arg = <<"!", "a", "_", "!">>
    /\ ret.value = <<"-", "a", "_", "!">>

====
